---- MODULE Spec2Model ----
(***************************************************************************)
(* A model of mkosi/installer/dnf.py: the Dnf package-manager backend.     *)
(*                                                                         *)
(* Strings are TLA+ strings, command vectors are sequences of strings and  *)
(* a text file is the sequence of its lines (each written with a trailing  *)
(* newline by the code).  An Optional value is <<>> (None) or <<v>>.       *)
(***************************************************************************)
EXTENDS Integers, Sequences, FiniteSets, TLC

VARIABLES
    config,     \* the build configuration (read-only settings source)
    fs,         \* files and directories under context.pkgmngr / "etc"
    varlog,     \* <<>> when <root>/var/log is absent, else <<its entries>>
    pc,         \* position of the single thread of control
    call,       \* the operation in progress and its arguments
    held,       \* TRUE while the source mounts of finalize_source_mounts are held
    trace,      \* the events of the operation in progress, in order
    cmdvec,     \* <<>> or <<the command vector last handed to run()>>
    pending,    \* the result or exception in flight inside invoke
    outcome,    \* what the caller of the last finished operation saw
    ret         \* the last value returned by a pure classmethod

vars == <<config, fs, varlog, pc, call, held, trace, cmdvec, pending, outcome, ret>>

(***************************************************************************)
(* Bounds of the model.                                                    *)
(***************************************************************************)
MaxRepos == 2       \* repository descriptors per setup call (rendering checks)
MaxGpg == 2         \* gpg urls per descriptor
MaxOptions == 2     \* caller options per sync call
MaxEnabled == 2     \* ids in config.repositories

(***************************************************************************)
(* Strings and sequences.                                                  *)
(***************************************************************************)
None == <<>>
Some(v) == <<v>>

Range(s) == {s[i] : i \in 1..Len(s)}

Max(S) == CHOOSE m \in S : \A n \in S : n <= m

Min(S) == CHOOSE m \in S : \A n \in S : m <= n

StartsWith(s, prefix) ==
    /\ Len(s) >= Len(prefix)
    /\ SubSeq(s, 1, Len(prefix)) = prefix

EndsWith(s, suffix) ==
    /\ Len(s) >= Len(suffix)
    /\ SubSeq(s, Len(s) - Len(suffix) + 1, Len(s)) = suffix

Spaces(n) == IF n = 0 THEN "" ELSE SubSeq("                                ", 1, n)

RECURSIVE Flatten(_)
Flatten(ss) == IF ss = <<>> THEN <<>> ELSE Head(ss) \o Flatten(Tail(ss))

SeqsUpTo(S, n) == UNION {[1..k -> S] : k \in 0..n}

IntStr(n) ==
    IF n < 10 THEN SubSeq("0123456789", n + 1, n + 1)
    ELSE SubSeq("0123456789", (n \div 10) + 1, (n \div 10) + 1)
         \o SubSeq("0123456789", (n % 10) + 1, (n % 10) + 1)

BoolInt(b) == IF b THEN "1" ELSE "0"

(***************************************************************************)
(* pathlib: Path(s).name, the last component of s.                         *)
(***************************************************************************)
RECURSIVE StripSlashes(_)
StripSlashes(s) ==
    IF Len(s) > 0 /\ SubSeq(s, Len(s), Len(s)) = "/"
    THEN StripSlashes(SubSeq(s, 1, Len(s) - 1))
    ELSE s

PathName(s) ==
    LET t == StripSlashes(s)
        slashes == {i \in 1..Len(t) : SubSeq(t, i, i) = "/"}
        k == IF slashes = {} THEN 0 ELSE Max(slashes)
    IN  IF k = Len(t) THEN "" ELSE SubSeq(t, k + 1, Len(t))

(***************************************************************************)
(* The configuration and the collaborators it stands for.                  *)
(***************************************************************************)
ROOT == "/buildroot"

EnvGet(environment, key) ==
    IF key \in DOMAIN environment THEN Some(environment[key]) ELSE None

\* find_binary(name, root=root): the path of name under the tools tree, or None.
find_binary(name, root) ==
    IF name \in root THEN Some("/usr/bin/" \o name) ELSE None

\* Python's truth value of an Optional[str]: None and "" are false.
Truthy(opt) == opt # None /\ opt[1] # ""

(***************************************************************************)
(* Dnf.executable, Dnf.subdir                                              *)
(***************************************************************************)
executable_noenv(cfg) ==
    LET root == cfg.tools
        dnf5 == find_binary("dnf5", root)
        legacy == find_binary("dnf", root)
    IN  PathName(IF Truthy(dnf5) THEN dnf5[1]
                 ELSE IF Truthy(legacy) THEN legacy[1]
                 ELSE "yum")

executable(cfg) ==
    LET dnf == EnvGet(cfg.environment, "MKOSI_DNF")
        root == cfg.tools
        dnf5 == find_binary("dnf5", root)
        legacy == find_binary("dnf", root)
    IN  PathName(IF Truthy(dnf) THEN dnf[1]
                 ELSE IF Truthy(dnf5) THEN dnf5[1]
                 ELSE IF Truthy(legacy) THEN legacy[1]
                 ELSE "yum")

subdir(cfg) == IF executable(cfg) = "dnf5" THEN "libdnf5" ELSE "dnf"

(***************************************************************************)
(* Dnf.cmd: the base command line.                                         *)
(***************************************************************************)
cmd_cachepolicy_swapped(cfg, dnf) ==
    IF cfg.cacheonly = "always"
    THEN <<"--setopt=metadata_expire=never">>
    ELSE <<"--cacheonly">> \o (IF dnf = "dnf5" THEN <<"--setopt=cacheonly=metadata">> ELSE <<>>)

cmd_cachepolicy(cfg, dnf) ==
    IF cfg.cacheonly = "always"
    THEN <<"--cacheonly">>
    ELSE <<"--setopt=metadata_expire=never">>
         \o (IF dnf = "dnf5" THEN <<"--setopt=cacheonly=metadata">> ELSE <<>>)

cmd(cfg) ==
    LET dnf == executable(cfg)
        next == EndsWith(dnf, "dnf5")
    IN  << "env",
           "HOME=/",
           dnf,
           "--assumeyes",
           "--best",
           "--releasever=" \o cfg.release,
           "--installroot=" \o ROOT,
           "--setopt=keepcache=1",
           "--setopt=logdir=/var/log",
           "--setopt=cachedir=/var/cache/" \o subdir(cfg),
           "--setopt=persistdir=/var/lib/" \o subdir(cfg),
           "--setopt=install_weak_deps=" \o BoolInt(cfg.with_recommends),
           "--setopt=check_config_file_age=0",
           IF next THEN "--disable-plugin=*" ELSE "--disableplugin=*",
           IF next THEN "--enable-plugin=builddep" ELSE "--enableplugin=builddep" >>
        \o (IF cfg.debug THEN <<"--setopt=debuglevel=10">> ELSE <<>>)
        \o (IF ~cfg.repository_key_check THEN <<"--nogpgcheck">> ELSE <<>>)
        \o (IF cfg.repositories # <<>>
            THEN [i \in 1..Len(cfg.repositories) |->
                    (IF next THEN "--enable-repo" ELSE "--enablerepo")
                    \o "=" \o cfg.repositories[i]]
            ELSE <<>>)
        \o cmd_cachepolicy(cfg, dnf)
        \o (IF ~cfg.native THEN <<"--forcearch=" \o cfg.arch>> ELSE <<>>)
        \o (IF ~cfg.with_docs
            THEN <<IF next THEN "--no-docs" ELSE "--nodocs">>
            ELSE <<>>)
        \o (IF next
            THEN <<"--use-host-config">>
            ELSE <<"--config=/etc/dnf/dnf.conf",
                   "--setopt=reposdir=/etc/yum.repos.d",
                   "--setopt=varsdir=/etc/dnf/vars">>)

(***************************************************************************)
(* The command vector invoke hands to run(), and the arguments of sync.    *)
(***************************************************************************)
run_vector(cfg, operation, arguments) == cmd(cfg) \o <<operation>> \o arguments

sync_arguments_options_first(cfg, options) ==
    options
    \o <<"--refresh">>
    \o (IF executable(cfg) = "dnf5" THEN <<"--setopt=cacheonly=none">> ELSE <<>>)

sync_arguments(cfg, options) ==
    <<"--refresh">>
    \o (IF executable(cfg) = "dnf5" THEN <<"--setopt=cacheonly=none">> ELSE <<>>)
    \o options

(***************************************************************************)
(* Dnf.setup: dnf.conf and mkosi.repo, each written only when absent.      *)
(***************************************************************************)
DNF_CONF == "etc/dnf/dnf.conf"
MKOSI_REPO == "etc/yum.repos.d/mkosi.repo"
LOCAL_REPO == "etc/yum.repos.d/mkosi-local.repo"
REPOS_D == "etc/yum.repos.d"

\* The indentation of the template lines inside the f-string of setup.
TemplateIndent == 28

LeadingSpaces(line) ==
    Max({n \in 0..Min({Len(line), 32}) : SubSeq(line, 1, n) = Spaces(n)})

\* textwrap.dedent on a text given as its lines: whitespace-only lines become
\* empty, the longest common leading whitespace of the others is removed.
dedent(lines) ==
    LET blank(l) == LeadingSpaces(l) = Len(l)
        solid == {i \in 1..Len(lines) : ~blank(lines[i])}
        margin == IF solid = {} THEN 0
                  ELSE Min({LeadingSpaces(lines[i]) : i \in solid})
    IN  [i \in 1..Len(lines) |->
            IF blank(lines[i]) THEN ""
            ELSE SubSeq(lines[i], margin + 1, Len(lines[i]))]

stanza_head(repo) ==
    LET ind == Spaces(TemplateIndent)
    IN  dedent(<< ind \o "[" \o repo.id \o "]",
                  ind \o "name=" \o repo.id,
                  ind \o repo.url,
                  ind \o "gpgcheck=1",
                  ind \o "enabled=" \o BoolInt(repo.enabled) >>)

\* A Path is always true in Python; an int is true unless it is 0.
stanza_optional(repo) ==
    (IF repo.sslcacert # None THEN <<"sslcacert=" \o repo.sslcacert[1]>> ELSE <<>>)
    \o (IF repo.sslclientcert # None THEN <<"sslclientcert=" \o repo.sslclientcert[1]>> ELSE <<>>)
    \o (IF repo.sslclientkey # None THEN <<"sslclientkey=" \o repo.sslclientkey[1]>> ELSE <<>>)
    \o (IF repo.priority # None /\ repo.priority[1] # 0
        THEN <<"priority=" \o IntStr(repo.priority[1])>> ELSE <<>>)

stanza_gpgkeys_repeated(repo) ==
    [i \in 1..Len(repo.gpgurls) |-> "gpgkey=" \o repo.gpgurls[i]]

stanza_gpgkeys(repo) ==
    [i \in 1..Len(repo.gpgurls) |->
        (IF i = 1 THEN "gpgkey=" ELSE Spaces(Len("gpgkey=")))
        \o repo.gpgurls[i]]

stanza(repo) ==
    stanza_head(repo) \o stanza_optional(repo) \o stanza_gpgkeys(repo) \o <<"">>

repofile_text(repositories) ==
    Flatten([i \in 1..Len(repositories) |-> stanza(repositories[i])])

dnfconf_text(cfg, filelists) ==
    IF EndsWith(executable(cfg), "dnf5") /\ filelists
    THEN <<"[main]", "optional_metadata_types=filelists">>
    ELSE <<>>

\* open("w") + writes: the file holds exactly text afterwards.
write_file(files, path, text) ==
    [p \in DOMAIN files \cup {path} |-> IF p = path THEN text ELSE files[p]]

write_always(files, path, text) == write_file(files, path, text)

write_if_absent(files, path, text) ==
    IF path \in DOMAIN files THEN files ELSE write_file(files, path, text)

setup(repositories, filelists) ==
    /\ pc = "idle"
    /\ fs' = [dirs |-> fs.dirs \cup {"etc/dnf/vars", "etc/dnf", REPOS_D},
              files |-> write_if_absent(
                            write_if_absent(fs.files, DNF_CONF,
                                            dnfconf_text(config, filelists)),
                            MKOSI_REPO, repofile_text(repositories))]
    /\ call' = [op |-> "setup", repositories |-> repositories, filelists |-> filelists]
    /\ trace' = <<>>
    /\ outcome' = "returned"
    /\ cmdvec' = None
    /\ UNCHANGED <<config, varlog, pc, held, pending, ret>>

(***************************************************************************)
(* Dnf.invoke: acquire the source mounts, run the command, release, and    *)
(* in the finally block purge the log files from <root>/var/log.           *)
(***************************************************************************)
LOG_PREFIXES == {"dnf", "hawkey", "yum"}

is_log(name) == \E prefix \in LOG_PREFIXES : StartsWith(name, prefix)

\* Entry names the external process (or the image) may leave in var/log.
LogNames == {"dnf.rpm.log", "hawkey.log", "wtmp"}

LogKinds == {"file", "dir"}

LogDirs == UNION {[N -> LogKinds] : N \in SUBSET LogNames}

begin_invoke(op, operation, arguments) ==
    /\ pc' = "acquire"
    /\ call' = [op |-> op, operation |-> operation, arguments |-> arguments]
    /\ cmdvec' = None
    /\ pending' = "none"

invoke(operation, arguments) ==
    /\ pc = "idle"
    /\ begin_invoke("invoke", operation, arguments)
    /\ trace' = <<>>
    /\ outcome' = "running"
    /\ UNCHANGED <<config, fs, varlog, held, ret>>

\* with finalize_source_mounts(...) as sources: entering the context.
invoke_acquire ==
    /\ pc = "acquire"
    /\ \/ /\ held' = TRUE
          /\ trace' = Append(trace, "acquire")
          /\ pc' = "spawn"
          /\ UNCHANGED pending
       \/ /\ held' = FALSE
          /\ trace' = Append(trace, "acquire_raised")
          /\ pending' = "MountError"
          /\ pc' = "cleanup"
    /\ UNCHANGED <<config, fs, varlog, call, cmdvec, outcome, ret>>

\* What the external process may do to <root>/var/log while it runs.
process_logs(before) ==
    {Some(d) : d \in {d \in LogDirs :
        before # None =>
            \A n \in DOMAIN before[1] : n \in DOMAIN d /\ d[n] = before[1][n]}}
    \cup {before}

\* run(cls.cmd(context) + [operation, *arguments], ...)
invoke_run ==
    /\ pc = "spawn"
    /\ cmdvec' = Some(run_vector(config, call.operation, call.arguments))
    /\ trace' = Append(trace, "spawn")
    /\ \/ /\ pending' = "SpawnError"
          /\ UNCHANGED varlog
       \/ /\ pending' \in {"CompletedProcess", "CalledProcessError"}
          /\ varlog' \in process_logs(varlog)
    /\ pc' = "release"
    /\ UNCHANGED <<config, fs, call, held, outcome, ret>>

\* Leaving the with block, normally or by an exception.
invoke_release ==
    /\ pc = "release"
    /\ held' = FALSE
    /\ trace' = Append(trace, "release")
    /\ pc' = "cleanup"
    /\ UNCHANGED <<config, fs, varlog, call, cmdvec, pending, outcome, ret>>

\* p.unlink() removes a file and raises IsADirectoryError on a directory.  The
\* order of iterdir() is arbitrary: when a log-named directory is met, any
\* of the log-named files may already have been removed.
cleanup_results(entries) ==
    LET logs == {n \in DOMAIN entries : is_log(n)}
        logdirs == {n \in logs : entries[n] = "dir"}
        keep(gone) == [n \in DOMAIN entries \ gone |-> entries[n]]
    IN  IF logdirs = {}
        THEN {[entries |-> keep(logs), raised |-> FALSE]}
        ELSE {[entries |-> keep(gone), raised |-> TRUE] :
                gone \in SUBSET (logs \ logdirs)}

invoke_cleanup ==
    /\ pc = "cleanup"
    /\ trace' = Append(trace, "cleanup")
    /\ IF varlog = None
       THEN /\ UNCHANGED varlog
            /\ outcome' = pending
       ELSE \E r \in cleanup_results(varlog[1]) :
            /\ varlog' = Some(r.entries)
            /\ outcome' = IF r.raised THEN "IsADirectoryError" ELSE pending
    /\ pc' = "idle"
    /\ UNCHANGED <<config, fs, call, held, cmdvec, pending, ret>>

(***************************************************************************)
(* Dnf.sync, Dnf.createrepo                                                *)
(***************************************************************************)
sync(options) ==
    /\ pc = "idle"
    /\ begin_invoke("sync", "makecache", sync_arguments(config, options))
    /\ trace' = <<>>
    /\ outcome' = "running"
    /\ UNCHANGED <<config, fs, varlog, held, ret>>

LOCAL_STANZA ==
    dedent(<< Spaces(16) \o "[mkosi]",
              Spaces(16) \o "name=mkosi",
              Spaces(16) \o "baseurl=file:///work/packages",
              Spaces(16) \o "gpgcheck=0",
              Spaces(16) \o "metadata_expire=never",
              Spaces(16) \o "priority=50" >>)

write_text_if_absent(files, path, text) == write_if_absent(files, path, text)

\* Path.write_text: creates or truncates the file; its directory must exist.
write_text(files, path, text) == write_file(files, path, text)

createrepo ==
    /\ pc = "idle"
    /\ \/ \* createrepo_c exits non-zero or cannot be spawned: run() raises
          /\ trace' = <<"createrepo_c_failed">>
          /\ outcome' = "CalledProcessError"
          /\ call' = [op |-> "createrepo", operation |-> "", arguments |-> <<>>]
          /\ UNCHANGED <<fs, pc, cmdvec, pending>>
       \/ \* the directory of mkosi-local.repo is missing: write_text raises
          /\ REPOS_D \notin fs.dirs
          /\ trace' = <<"createrepo_c">>
          /\ outcome' = "FileNotFoundError"
          /\ call' = [op |-> "createrepo", operation |-> "", arguments |-> <<>>]
          /\ UNCHANGED <<fs, pc, cmdvec, pending>>
       \/ /\ REPOS_D \in fs.dirs
          /\ fs' = [fs EXCEPT !.files = write_text(fs.files, LOCAL_REPO, LOCAL_STANZA)]
          /\ trace' = <<"createrepo_c", "write_text">>
          /\ outcome' = "running"
          /\ begin_invoke("createrepo", "makecache",
                          sync_arguments(config, <<"--disablerepo=*", "--enablerepo=mkosi">>))
    /\ UNCHANGED <<config, varlog, held, ret>>

(***************************************************************************)
(* Pure classmethods, called from the idle state.                          *)
(***************************************************************************)
returns(fn, arg, val) ==
    /\ pc = "idle"
    /\ ret' = [fn |-> fn, arg |-> arg, val |-> val]
    /\ UNCHANGED <<config, fs, varlog, pc, call, held, trace, cmdvec, pending, outcome>>

call_executable == returns("executable", <<>>, executable(config))

call_subdir == returns("subdir", <<>>, subdir(config))

call_cmd == returns("cmd", <<>>, cmd(config))

\* The vector sync(options) passes through invoke to run().
call_sync(options) ==
    returns("sync", options, run_vector(config, "makecache", sync_arguments(config, options)))

(***************************************************************************)
(* Inputs.                                                                 *)
(***************************************************************************)
NoEnv == [k \in {} |-> ""]

Overrides == {"", "dnf5", "/usr/local/bin/dnf", "/opt/dnf5/", "mydnf5"}

Environments == {NoEnv} \cup {[k \in {"MKOSI_DNF"} |-> v] : v \in Overrides}

ToolTrees == SUBSET {"dnf5", "dnf"}

CachePolicies == {"always", "auto", "metadata"}

RepoIds == <<"base", "updates", "extras", "testing">>

Configs ==
    [environment : Environments,
     tools : ToolTrees,
     cacheonly : CachePolicies,
     repositories : {SubSeq(RepoIds, 1, k) : k \in 0..MaxEnabled},
     repository_key_check : BOOLEAN,
     with_docs : BOOLEAN,
     with_recommends : BOOLEAN,
     native : BOOLEAN,
     debug : BOOLEAN,
     release : {"40"},
     arch : {"aarch64"}]

DefaultConfig ==
    [environment |-> NoEnv, tools |-> {"dnf5", "dnf"}, cacheonly |-> "auto",
     repositories |-> <<>>, repository_key_check |-> TRUE, with_docs |-> FALSE,
     with_recommends |-> FALSE, native |-> TRUE, debug |-> FALSE,
     release |-> "40", arch |-> "aarch64"]

\* The configurations of the file-system runs: dnf5 found, and only dnf found.
MachineConfigs ==
    { DefaultConfig,
      [DefaultConfig EXCEPT !.tools = {"dnf"}, !.cacheonly = "always"] }

SyncOptions == {"--disablerepo=*", "--enablerepo=mkosi"}

GpgUrls ==
    <<"file:///key", "https://example.org/key2", "file:///key3", "https://example.org/key4">>

\* Url lists of every length up to MaxGpg, and one in another order.
GpgLists ==
    {SubSeq(GpgUrls, 1, n) : n \in 0..MaxGpg} \cup {<<GpgUrls[2], GpgUrls[1]>>}

BaseRepo ==
    [id |-> "base", url |-> "baseurl=file:///repo", enabled |-> TRUE,
     gpgurls |-> <<"file:///key">>, sslcacert |-> None, sslclientcert |-> None,
     sslclientkey |-> None, priority |-> None]

OptPaths(p) == {None, Some(p)}

Descriptors ==
    {[BaseRepo EXCEPT !.gpgurls = g] : g \in GpgLists}
    \cup {[BaseRepo EXCEPT !.id = "updates", !.enabled = e, !.priority = p] :
            e \in BOOLEAN, p \in {None, Some(0), Some(50)}}
    \cup {[BaseRepo EXCEPT !.id = "secure", !.url = "mirrorlist=https://m/list",
                           !.sslcacert = a, !.sslclientcert = b, !.sslclientkey = c] :
            a \in OptPaths("/etc/pki/ca.pem"), b \in OptPaths("/etc/pki/client.pem"),
            c \in OptPaths("/etc/pki/client.key")}
    \cup {[BaseRepo EXCEPT !.id = "full", !.enabled = FALSE, !.priority = Some(0),
                           !.sslcacert = Some("/etc/pki/ca.pem"),
                           !.sslclientkey = Some("/etc/pki/client.key")]}

RepoLists == SeqsUpTo(Descriptors, MaxRepos)

\* The repository lists of the file-system runs.
SetupLists ==
    { <<BaseRepo>>,
      <<[BaseRepo EXCEPT !.id = "updates", !.priority = Some(50)], BaseRepo>> }

CustomText == <<"# written by hand">>

\* Build roots before the first call: fresh, or with some files left by an
\* earlier run (their directories then exist).
InitialFs ==
    {[dirs |-> {}, files |-> [p \in {} |-> <<>>]]}
    \cup {[dirs |-> {"etc/dnf/vars", "etc/dnf", REPOS_D},
           files |-> [p \in F |-> CustomText]] :
            F \in SUBSET {DNF_CONF, MKOSI_REPO, LOCAL_REPO}}

InitialLogs ==
    {None, Some([n \in {"dnf.rpm.log", "wtmp"} |-> "file"])}

(***************************************************************************)
(* Specifications.                                                         *)
(***************************************************************************)
InitCommon ==
    /\ pc = "idle"
    /\ call = [op |-> "none"]
    /\ held = FALSE
    /\ trace = <<>>
    /\ cmdvec = None
    /\ pending = "none"
    /\ outcome = "none"
    /\ ret = [fn |-> "none"]

\* The file-system machine: setup, createrepo, sync and invoke on one build root.
Init ==
    /\ config \in MachineConfigs
    /\ fs \in InitialFs
    /\ varlog \in InitialLogs
    /\ InitCommon

Next ==
    \/ \E repositories \in SetupLists, filelists \in BOOLEAN :
            setup(repositories, filelists)
    \/ invoke("install", <<"bash">>)
    \/ sync(<<"--disablerepo=*">>)
    \/ createrepo
    \/ invoke_acquire
    \/ invoke_run
    \/ invoke_release
    \/ invoke_cleanup

Spec == Init /\ [][Next]_vars

\* The command builder as a function of the configuration.
InitCmd ==
    /\ config \in Configs
    /\ fs = [dirs |-> {}, files |-> [p \in {} |-> <<>>]]
    /\ varlog = None
    /\ InitCommon

NextCmd ==
    \/ call_executable
    \/ call_subdir
    \/ call_cmd
    \/ \E options \in SeqsUpTo(SyncOptions, MaxOptions) : call_sync(options)

SpecCmd == InitCmd /\ [][NextCmd]_vars

\* The repository file as a function of the descriptor list of the first setup.
InitRepo ==
    /\ config \in MachineConfigs
    /\ fs = [dirs |-> {}, files |-> [p \in {} |-> <<>>]]
    /\ varlog = None
    /\ InitCommon

\* filelists is left at its default.
NextRepo ==
    \E repositories \in RepoLists :
        /\ call.op = "none"
        /\ setup(repositories, TRUE)

SpecRepo == InitRepo /\ [][NextRepo]_vars

(***************************************************************************)
(* Properties of the command builder (SpecCmd).                            *)
(***************************************************************************)
Has(v, token) == \E i \in 1..Len(v) : v[i] = token

Override == EnvGet(config.environment, "MKOSI_DNF")

\* The last path component of each override of Overrides, written out.
OverrideBasename ==
    [v \in Overrides |->
        CASE v = "" -> ""
          [] v = "dnf5" -> "dnf5"
          [] v = "/usr/local/bin/dnf" -> "dnf"
          [] v = "/opt/dnf5/" -> "dnf5"
          [] v = "mydnf5" -> "mydnf5"]

SearchResult ==
    IF "dnf5" \in config.tools THEN "dnf5"
    ELSE IF "dnf" \in config.tools THEN "dnf"
    ELSE "yum"

NoSlash(s) == \A i \in 1..Len(s) : SubSeq(s, i, i) # "/"

\* C4: the base command holds --cacheonly and not --setopt=metadata_expire=never
\* under the always-cached policy, and the reverse under every other policy.
C4_CachePolicyFlags ==
    ret.fn = "cmd" =>
        IF config.cacheonly = "always"
        THEN Has(ret.val, "--cacheonly") /\ ~Has(ret.val, "--setopt=metadata_expire=never")
        ELSE Has(ret.val, "--setopt=metadata_expire=never") /\ ~Has(ret.val, "--cacheonly")

C4_Witness ==
    /\ ret.fn = "cmd"
    /\ config.cacheonly = "always"
    /\ Has(ret.val, "--cacheonly")
    /\ Override = Some("mydnf5")
    /\ config.repositories # <<>>

\* C6 as stated: whenever MKOSI_DNF is set, executable returns the basename of
\* the override; otherwise dnf5, dnf, yum in this order; never a directory part.
C6_OverrideAlwaysWins ==
    ret.fn = "executable" =>
        /\ NoSlash(ret.val)
        /\ IF Override # None
           THEN ret.val = OverrideBasename[Override[1]]
           ELSE ret.val = SearchResult

\* C6 as amended: an override set to a non-empty value decides the result (its
\* basename); an unset or empty override leaves it to the search: dnf5 if found,
\* else dnf if found, else yum; the result never has a directory part.
C6_NonEmptyOverrideWins ==
    ret.fn = "executable" =>
        /\ NoSlash(ret.val)
        /\ IF Override # None /\ Override[1] # ""
           THEN ret.val = OverrideBasename[Override[1]]
           ELSE ret.val = SearchResult

C6_Witness ==
    /\ ret.fn = "executable"
    /\ Override = Some("/usr/local/bin/dnf")
    /\ config.tools = {"dnf5", "dnf"}
    /\ ret.val = "dnf"

\* C8: every variant-dependent decision classifies the resolved binary the same
\* way: --use-host-config (the next-gen spellings) iff subdir is libdnf5, iff
\* --setopt=cacheonly=metadata under a policy other than always, iff sync adds
\* --setopt=cacheonly=none.
C8_VariantConsistent ==
    /\ ret.fn = "cmd" =>
        /\ Has(ret.val, "--use-host-config") <=> subdir(config) = "libdnf5"
        /\ Has(ret.val, "--use-host-config") <=> Has(ret.val, "--disable-plugin=*")
        /\ config.cacheonly # "always" =>
            (Has(ret.val, "--use-host-config") <=> Has(ret.val, "--setopt=cacheonly=metadata"))
    /\ ret.fn = "sync" =>
        (Has(ret.val, "--use-host-config") <=> Has(ret.val, "--setopt=cacheonly=none"))

RepoText == fs.files[MKOSI_REPO]

BlankLines == {i \in 1..Len(RepoText) : RepoText[i] = ""}

\* The k-th stanza of mkosi.repo: the lines up to the k-th blank line.
Block(k) ==
    LET stop == CHOOSE i \in BlankLines : Cardinality({j \in BlankLines : j <= i}) = k
        before == {j \in BlankLines : j < stop}
        start == IF before = {} THEN 1 ELSE Max(before) + 1
    IN  SubSeq(RepoText, start, stop - 1)

IsGpgLine(line) == StartsWith(line, "gpgkey=") \/ StartsWith(line, "       ")

SetupWroteRepo == call.op = "setup" /\ MKOSI_REPO \in DOMAIN fs.files

\* C5: one stanza per descriptor, in input order, each closed by exactly one
\* blank line; a descriptor with N >= 1 gpg urls gives exactly N gpgkey lines,
\* the last N lines of its stanza: gpgkey=<url 1>, then 7 spaces and <url k>.
C5_GpgKeyLines ==
    SetupWroteRepo =>
        LET repos == call.repositories
        IN  /\ Cardinality(BlankLines) = Len(repos)
            /\ repos # <<>> => RepoText[Len(RepoText)] = ""
            /\ \A k \in 1..Len(repos) :
                LET b == Block(k)
                    urls == repos[k].gpgurls
                    n == Len(urls)
                IN  /\ Len(b) >= 5 + n
                    /\ b[1] = "[" \o repos[k].id \o "]"
                    /\ Cardinality({i \in 1..Len(b) : IsGpgLine(b[i])}) = n
                    /\ n >= 1 => b[Len(b) - n + 1] = "gpgkey=" \o urls[1]
                    /\ \A i \in 2..n : b[Len(b) - n + i] = "       " \o urls[i]

C5_Witness ==
    /\ SetupWroteRepo
    /\ Len(call.repositories) = 2
    /\ Len(call.repositories[1].gpgurls) = 2
    /\ call.repositories[2].sslclientkey # None
    /\ Len(RepoText) >= 16

\* C7: in each stanza sslcacert=, sslclientcert=, sslclientkey= and priority=
\* are present exactly when the descriptor has the field (priority for every
\* integer, 0 included) and carry its value; gpgcheck=1 is always present and
\* enabled= is 1 exactly when the descriptor is enabled.
C7_OptionalLines ==
    SetupWroteRepo =>
        \A k \in 1..Len(call.repositories) :
            LET b == Block(k)
                r == call.repositories[k]
                count(key) == Cardinality({i \in 1..Len(b) : StartsWith(b[i], key)})
                field(key, opt, text) ==
                    IF opt = None THEN count(key) = 0
                    ELSE count(key) = 1 /\ Has(b, key \o text)
            IN  /\ field("sslcacert=", r.sslcacert, IF r.sslcacert = None THEN "" ELSE r.sslcacert[1])
                /\ field("sslclientcert=", r.sslclientcert,
                         IF r.sslclientcert = None THEN "" ELSE r.sslclientcert[1])
                /\ field("sslclientkey=", r.sslclientkey,
                         IF r.sslclientkey = None THEN "" ELSE r.sslclientkey[1])
                /\ field("priority=", r.priority,
                         IF r.priority = None THEN ""
                         ELSE IF r.priority[1] = 0 THEN "0" ELSE "50")
                /\ Has(b, "gpgcheck=1")
                /\ Has(b, IF r.enabled THEN "enabled=1" ELSE "enabled=0")
                /\ ~Has(b, IF r.enabled THEN "enabled=0" ELSE "enabled=1")

(***************************************************************************)
(* Properties of the file-system machine (Spec).                           *)
(***************************************************************************)
SetupFiles == {DNF_CONF, MKOSI_REPO}

\* C1: a step never changes an existing dnf.conf or mkosi.repo, and a step that
\* creates one is a setup call and leaves in it what that call renders from
\* its own arguments: later setup calls, whatever their arguments, and files
\* present before the first call, are left alone.
C1_SetupWritesOnce ==
    [][\A p \in SetupFiles :
        /\ p \in DOMAIN fs.files =>
            p \in DOMAIN fs'.files /\ fs'.files[p] = fs.files[p]
        /\ p \notin DOMAIN fs.files /\ p \in DOMAIN fs'.files =>
            /\ call'.op = "setup"
            /\ fs'.files[p] = IF p = MKOSI_REPO
                              THEN repofile_text(call'.repositories)
                              ELSE dnfconf_text(config, call'.filelists)]_vars

C1_Witness ==
    /\ call.op = "setup"
    /\ Len(call.repositories) = 2
    /\ call.filelists = FALSE
    /\ MKOSI_REPO \in DOMAIN fs.files
    /\ fs.files[MKOSI_REPO] = repofile_text(<<BaseRepo>>)
    /\ fs.files[DNF_CONF] = <<"[main]", "optional_metadata_types=filelists">>

LogsOf(v) == IF v = None THEN {} ELSE {n \in DOMAIN v[1] : is_log(n)}

\* C2: the cleanup that ends every invoke leaves no entry of <root>/var/log
\* whose name starts with dnf, hawkey or yum, whatever its kind, keeps every
\* other entry, and does nothing and raises nothing when var/log is absent.
C2_LogsPurged ==
    [][pc = "cleanup" /\ pc' = "idle" =>
        /\ LogsOf(varlog') = {}
        /\ varlog # None =>
            /\ varlog' # None
            /\ \A n \in DOMAIN varlog[1] \ LogsOf(varlog) :
                n \in DOMAIN varlog'[1] /\ varlog'[1][n] = varlog[1][n]
        /\ varlog = None => varlog' = None /\ outcome' = pending]_vars

FixedStanza ==
    << "[mkosi]", "name=mkosi", "baseurl=file:///work/packages", "gpgcheck=0",
       "metadata_expire=never", "priority=50" >>

IndexingSucceeded(t) == t # <<>> /\ t[1] = "createrepo_c"

\* C3 as stated: every step of a createrepo call leaves dnf.conf and mkosi.repo
\* as they were, and once createrepo_c has succeeded mkosi-local.repo holds
\* the fixed stanza, on any build root.
C3_LocalRepoAlwaysWritten ==
    [][call'.op = "createrepo" =>
        /\ \A p \in SetupFiles :
            /\ p \in DOMAIN fs.files <=> p \in DOMAIN fs'.files
            /\ p \in DOMAIN fs.files => fs'.files[p] = fs.files[p]
        /\ IndexingSucceeded(trace') =>
            /\ LOCAL_REPO \in DOMAIN fs'.files
            /\ fs'.files[LOCAL_REPO] = FixedStanza]_vars

\* C3 as amended: the same, for createrepo calls on a build root where
\* etc/yum.repos.d exists (it does after any setup call); where it is missing
\* the write raises and mkosi-local.repo is not created.
C3_LocalRepoWrittenInRepoDir ==
    [][call'.op = "createrepo" =>
        /\ \A p \in SetupFiles :
            /\ p \in DOMAIN fs.files <=> p \in DOMAIN fs'.files
            /\ p \in DOMAIN fs.files => fs'.files[p] = fs.files[p]
        /\ IndexingSucceeded(trace') /\ REPOS_D \in fs.dirs =>
            /\ LOCAL_REPO \in DOMAIN fs'.files
            /\ fs'.files[LOCAL_REPO] = FixedStanza
        /\ IndexingSucceeded(trace') /\ REPOS_D \notin fs.dirs =>
            /\ LOCAL_REPO \notin DOMAIN fs'.files
            /\ outcome' = "FileNotFoundError"]_vars

C3_Witness ==
    /\ call.op = "createrepo"
    /\ pc = "idle"
    /\ Has(trace, "cleanup")
    /\ DOMAIN fs.files = {DNF_CONF, MKOSI_REPO, LOCAL_REPO}
    /\ fs.files[LOCAL_REPO] = FixedStanza
    /\ fs.files[MKOSI_REPO] = repofile_text(<<BaseRepo>>)
    /\ fs.files[DNF_CONF] = CustomText

Count(t, e) == Cardinality({i \in 1..Len(t) : t[i] = e})

Before(t, a, b) == \A i, j \in 1..Len(t) : t[i] = a /\ t[j] = b => i < j

ProcessFailures == {"CalledProcessError", "SpawnError"}

\* C10: in every finished invoke the mounts were acquired before the one
\* process was spawned, released after it and before the log cleanup, none is
\* still held, and a failure of the process is what the caller sees.
C10_MountDiscipline ==
    pc = "idle" /\ Has(trace, "cleanup") =>
        /\ ~held
        /\ Count(trace, "spawn") <= 1
        /\ Has(trace, "acquire") =>
            /\ Count(trace, "spawn") = 1
            /\ Count(trace, "release") = 1
            /\ Before(trace, "acquire", "spawn")
            /\ Before(trace, "spawn", "release")
            /\ Before(trace, "release", "cleanup")
        /\ Has(trace, "spawn") /\ pending \in ProcessFailures => outcome = pending
        /\ Has(trace, "acquire_raised") => ~Has(trace, "spawn")

====
